---- MODULE Spec2Model ----
(***************************************************************************)
(* GOSTnets load_traffic.py: OSM_to_network.                               *)
(*                                                                         *)
(* The model follows one OSM_to_network object through its life:           *)
(*   HighwayExtractor.way, once per way of the file -> highways            *)
(*   fetch_roads_w_traffic (called by __init__)  -> roads_raw, nodes_raw   *)
(*   apply_traffic_speeds_to_roads_raw           -> roads_raw with speeds  *)
(*   generateRoadsGDF, that is get_all_intersections_and_create_nodes:     *)
(*     one step per iteration of its main loop, then the flattening that   *)
(*     numbers the edges                         -> roadsGDF, nodesGDF     *)
(*   initialReadIn                               -> network                *)
(*                                                                         *)
(* Coordinates are points of an integer grid. Every RawEdge is a straight  *)
(* two-point segment (load_traffic.py:239); the segments of the catalogue  *)
(* are horizontal, vertical or diagonal, so two of them that are not       *)
(* parallel meet, if at all, at a grid point, and intersection, bounding   *)
(* boxes and splitting are computed exactly.                               *)
(***************************************************************************)
EXTENDS Integers, Sequences, FiniteSets, TLC

\* ---------------------------------------------------------------- bounds
\* Largest number of OSM ways in one input file.
MaxWays == 3

\* ------------------------------------------------------- generic helpers
\* A nullable number: NaN is the empty sequence, a value v is <<v>>.
NaN == <<>>
Val(v) == <<v>>

Range(s) == {s[i] : i \in 1..Len(s)}

RECURSIVE Flatten(_)
Flatten(ss) == IF ss = <<>> THEN <<>> ELSE Head(ss) \o Flatten(Tail(ss))

RECURSIVE SumSeq(_)
SumSeq(s) == IF s = <<>> THEN 0 ELSE Head(s) + SumSeq(Tail(s))

Min(S) == CHOOSE x \in S : \A y \in S : x <= y
Max(S) == CHOOSE x \in S : \A y \in S : x >= y

\* All sequences over S of length lo..hi.
SeqsOf(S, lo, hi) == UNION {[1..n -> S] : n \in lo..hi}

\* Sequences without repetition.
Injective(s) == \A i, j \in 1..Len(s) : i # j => s[i] # s[j]

\* ------------------------------------------------- python str() and int()
\* str(n) for a natural number: its decimal digits, most significant first.
RECURSIVE Str(_)
Str(n) == IF n < 10 THEN <<n>> ELSE Append(Str(n \div 10), n % 10)

\* s[from:] and s[:to] of python, on digit sequences (0-based bounds).
SliceFrom(s, from) == IF from >= Len(s) THEN <<>> ELSE SubSeq(s, from + 1, Len(s))
SliceTo(s, to) == IF to >= Len(s) THEN s ELSE SubSeq(s, 1, to)

\* np.int64(digits): the number a digit string denotes.
RECURSIVE ToInt(_)
ToInt(s) == IF s = <<>> THEN 0 ELSE 10 * ToInt(SubSeq(s, 1, Len(s) - 1)) + s[Len(s)]

\* The id of the first node a split creates on an edge.
FirstNewNodeId(stnode, endnode) ==
    ToInt(<<9, 9>> \o SliceFrom(Str(stnode), 4) \o SliceTo(Str(endnode), 4))

\* The id of each later node of the same edge.
NextNewNodeId(new_node_id) == new_node_id + 1

\* ----------------------------------------------------------- geometry
Grid == (0..4) \X (0..4)

\* v lies between u and w, whichever of the two is the smaller.
Between(u, v, w) == (u <= v /\ v <= w) \/ (w <= v /\ v <= u)

\* p lies on the closed segment from a to b.
OnSegment(p, a, b) ==
    /\ Between(a[1], p[1], b[1])
    /\ Between(a[2], p[2], b[2])
    /\ (b[1] - a[1]) * (p[2] - a[2]) = (b[2] - a[2]) * (p[1] - a[1])

\* p lies on the linestring with coordinates cs.
OnLine(p, cs) == \E i \in 1..(Len(cs) - 1) : OnSegment(p, cs[i], cs[i + 1])

\* The boundary of a linestring: its two end points, unless it is closed.
Boundary(cs) == IF cs[1] = cs[Len(cs)] THEN {} ELSE {cs[1], cs[Len(cs)]}

\* p lies in the interior of the linestring.
InInterior(p, cs) == OnLine(p, cs) /\ p \notin Boundary(cs)

\* line.bounds: (minx, miny, maxx, maxy).
Bounds(cs) ==
    LET xs == {cs[i][1] : i \in 1..Len(cs)}
        ys == {cs[i][2] : i \in 1..Len(cs)}
    IN  <<Min(xs), Min(ys), Max(xs), Max(ys)>>

\* Two boxes intersect (touching counts), as the R-tree queries decide.
BoxesIntersect(b, c) ==
    /\ b[1] <= c[3] /\ c[1] <= b[3]
    /\ b[2] <= c[4] /\ c[2] <= b[4]

PointBounds(p) == <<p[1], p[2], p[1], p[2]>>

\* The grid points two linestrings have in common: points of the box of cs.
CommonPoints(cs, ds) ==
    LET b == Bounds(cs)
    IN  {p \in (b[1]..b[3]) \X (b[2]..b[4]) : OnLine(p, cs) /\ OnLine(p, ds)}

\* Two segments lie on one straight line.
Collinear(a, b, c, d) ==
    /\ (b[1] - a[1]) * (c[2] - a[2]) = (b[2] - a[2]) * (c[1] - a[1])
    /\ (b[1] - a[1]) * (d[2] - a[2]) = (b[2] - a[2]) * (d[1] - a[1])

\* Some segment of cs and some segment of ds overlap along a stretch.
Overlap(cs, ds) ==
    \E i \in 1..(Len(cs) - 1), j \in 1..(Len(ds) - 1) :
        /\ Collinear(cs[i], cs[i + 1], ds[j], ds[j + 1])
        /\ Cardinality({p \in Grid : OnSegment(p, cs[i], cs[i + 1])
                                     /\ OnSegment(p, ds[j], ds[j + 1])}) > 1

\* line.intersects(line2)
Intersects(cs, ds) == CommonPoints(cs, ds) # {}

\* line.intersection(line2).type
InterType(cs, ds) ==
    LET common == CommonPoints(cs, ds)
    IN  IF common = {} THEN "Empty"
        ELSE IF Overlap(cs, ds) THEN "LineString"
        ELSE IF Cardinality(common) = 1 THEN "Point"
        ELSE "MultiPoint"

\* Mutant (C5): the second piece does not start at the cut point.
SplitLineWithPoint_noJoin(cs, p) ==
    IF ~InInterior(p, cs) THEN <<cs>>
    ELSE LET i == Min({j \in 1..(Len(cs) - 1) : OnSegment(p, cs[j], cs[j + 1])})
         IN  <<Append(SubSeq(cs, 1, i), p), SubSeq(cs, i + 1, Len(cs))>>

\* Mutant (C6): a point at an end of the line cuts it too.
SplitLineWithPoint_atEnds(cs, p) ==
    IF ~OnLine(p, cs) THEN <<cs>>
    ELSE LET i == Min({j \in 1..(Len(cs) - 1) : OnSegment(p, cs[j], cs[j + 1])})
         IN  <<Append(SubSeq(cs, 1, i), p), <<p>> \o SubSeq(cs, i + 1, Len(cs))>>

\* shapely.ops.split(line, point): the line cut at p when p lies in its
\* interior, at a vertex or between two vertices; otherwise the line itself.
SplitLineWithPoint(cs, p) ==
    IF ~InInterior(p, cs) THEN <<cs>>
    ELSE LET i == Min({j \in 1..(Len(cs) - 1) : OnSegment(p, cs[j], cs[j + 1])})
         IN  IF p = cs[i + 1]
             THEN <<SubSeq(cs, 1, i + 1), SubSeq(cs, i + 1, Len(cs))>>
             ELSE <<Append(SubSeq(cs, 1, i), p), <<p>> \o SubSeq(cs, i + 1, Len(cs))>>

\* One point applied to every chunk, the chunks kept in order along the line.
RECURSIVE SplitChunks(_, _)
SplitChunks(chunks, p) ==
    IF chunks = <<>> THEN <<>>
    ELSE SplitLineWithPoint(Head(chunks), p) \o SplitChunks(Tail(chunks), p)

\* shapely.ops.split(line, MultiPoint(pts)): one point after the other.
RECURSIVE SplitLineWithMultipoint(_, _)
SplitLineWithMultipoint(chunks, pts) ==
    IF pts = <<>> THEN chunks
    ELSE SplitLineWithMultipoint(SplitChunks(chunks, Head(pts)), Tail(pts))

Split(line, pts) == SplitLineWithMultipoint(<<line>>, pts)

\* ------------------------------------------------------------ the input
\* The OSM nodes of the catalogue: their locations on the grid.
Coord ==
    <<  <<2, 0>>, <<2, 4>>,                        \* 1, 2  : ends of way 102
        <<0, 1>>, <<4, 1>>, <<4, 3>>, <<0, 3>>,    \* 3..6  : vertices of way 103
        <<2, 1>>,                                  \* 7     : end of way 104
        <<1, 0>>, <<1, 2>>,                        \* 8, 9  : ends of way 105
        <<1, 3>>, <<3, 1>> >>                      \* 10, 11: ends of way 106

\* A node the file has no location for (a way refers to it, the extract
\* does not hold it).
Missing == 12

\* Three numberings of the same nodes: ids far apart, ids handed out one
\* after the other (as one mapping session produces them), and small ids.
IdSchemes == {"spread", "consecutive", "small"}

SmallIds == <<2, 3, 12, 5, 6, 7, 8, 991, 1, 11, 4, 13>>

NodeRef(scheme, n) ==
    CASE scheme = "spread"      -> 100000 + 1001 * n
      [] scheme = "consecutive" -> 5000000 + n
      [] scheme = "small"       -> SmallIds[n]

\* The ways of the catalogue: id, vertices (indexes into Coord), tags.
\*   102  a long vertical line, x = 2
\*   103  a way of three segments: along y = 1, up x = 4, back along y = 3;
\*        102 crosses its first and its third segment
\*   104  a short line along y = 1 from the first vertex of 103, lying on the
\*        first segment of 103 and ending on 102
\*   105  a short vertical line, x = 1, crossing 104 and the first segment of 103
\*   106  a diagonal from (1, 3) to (3, 1), crossing 102, its ends on 103
WayCatalogue ==
    {   [id |-> 102, pts |-> <<1, 2>>,       tags |-> [highway |-> "secondary"]],
        [id |-> 103, pts |-> <<3, 4, 5, 6>>, tags |-> [highway |-> "trunk"]],
        [id |-> 104, pts |-> <<3, 7>>,       tags |-> [highway |-> "primary_link"]],
        [id |-> 105, pts |-> <<8, 9>>,       tags |-> [highway |-> "motorway"]],
        [id |-> 106, pts |-> <<10, 11>>,     tags |-> [highway |-> "trunk_link"]] }

\* Roads drawn over one another along y = 1:
\*   104  as above, from (0, 1) to (2, 1)
\*   111  its continuation from (2, 1) to (4, 1): it meets 104 end to end
\*   112  from (0, 1) to (3, 1): it lies on 104 and on part of 111, and the
\*        point where these two meet is in its interior
OverlapCatalogue ==
    {   [id |-> 104, pts |-> <<3, 7>>,       tags |-> [highway |-> "primary_link"]],
        [id |-> 111, pts |-> <<7, 4>>,       tags |-> [highway |-> "primary"]],
        [id |-> 112, pts |-> <<3, 11>>,      tags |-> [highway |-> "tertiary"]] }

\* Ways that are not well-formed roads:
\*   107  a well-formed way that is no road (it has no highway tag)
\*   102  way 102 drawn through a node without location: two located nodes
\*   108  a road of which one node only has a location
\*   109  no road, through a node without location: two located nodes
\*   110  no road, one located node only
OddWays ==
    {   [id |-> 107, pts |-> <<8, 9>>,          tags |-> [waterway |-> "stream"]],
        [id |-> 102, pts |-> <<1, Missing, 2>>, tags |-> [highway |-> "secondary"]],
        [id |-> 108, pts |-> <<1, Missing>>,    tags |-> [highway |-> "residential"]],
        [id |-> 109, pts |-> <<1, Missing, 2>>, tags |-> [waterway |-> "stream"]],
        [id |-> 110, pts |-> <<Missing, 2>>,    tags |-> [waterway |-> "stream"]] }

\* An osmium node of a way: its ref and its location, NaN when not valid.
OsmNode(scheme, n) ==
    [ref      |-> NodeRef(scheme, n),
     location |-> IF n \in DOMAIN Coord THEN Val(Coord[n]) ELSE NaN]

\* An osmium way, as the handler is given it.
OsmWay(scheme, w) ==
    [id    |-> w.id,
     nodes |-> [i \in 1..Len(w.pts) |-> OsmNode(scheme, w.pts[i])],
     tags  |-> w.tags]

\* The files the extractor can read: up to MaxWays ways of different ids, in
\* any order, under one numbering of the nodes. Either the ways are roads of
\* the catalogue, but for at most one that is not well-formed, and at least
\* one is a road of the catalogue; or they are the roads drawn over one
\* another.
WaySeqs ==
    {s \in SeqsOf(WayCatalogue \cup OddWays, 1, MaxWays) :
        /\ \A i, j \in 1..Len(s) : i # j => s[i].id # s[j].id
        /\ Cardinality({i \in 1..Len(s) : s[i] \in OddWays}) <= 1
        /\ \E i \in 1..Len(s) : s[i] \in WayCatalogue}
    \cup {s \in SeqsOf(OverlapCatalogue, 1, MaxWays) : Injective(s)}

OsmFiles ==
    {[i \in 1..Len(ws) |-> OsmWay(scheme, ws[i])] : scheme \in IdSchemes, ws \in WaySeqs}

\* --------------------------------------------------------------- state
VARIABLES
    pc,             \* where the run stands: "fetch", "raw", "correct", "done"
    osm_ways,       \* the ways of the file the handler has not been given yet
    highways,       \* HighwayExtractor.highways
    broken_highways,\* HighwayExtractor.broken_highways
    roads_raw,      \* self.roads_raw: the RawEdges, in row order
    nodes_raw,      \* the node table: self.nodes_raw, then in_df_nodes_raw
    traffic_files,  \* the rows of the csv files given to the traffic merge
    count,          \* rows of roads_raw the correction loop has finished
    inters_done,    \* the pairs of keys already intersected
    idx_inters,     \* the points held by the intersection R-tree
    inter_calls,    \* history: the pairs of rows whose intersection was computed
    hits,           \* the hits of the row processed last
    hist,           \* hits_0, hits_1, hits_2, hits_3, hits_4_or_more
    new_lines,      \* one list of edge dicts per finished row
    roadsGDF,       \* self.roadsGDF
    nodesGDF,       \* self.nodesGDF
    fpath,          \* the form of the argument initialReadIn was called with
    network,        \* self.network: NaN until initialReadIn has returned a graph
    raised          \* the exception that ended the run ("" when there is
                    \* none): nothing is called on the object after it

vars == <<pc, osm_ways, highways, broken_highways, roads_raw, nodes_raw,
          traffic_files, count, inters_done, idx_inters, inter_calls, hits, hist,
          new_lines, roadsGDF, nodesGDF, fpath, network, raised>>

loopVars == <<count, inters_done, idx_inters, inter_calls, hits, hist, new_lines>>

readVars == <<fpath, network, raised>>

Init ==
    /\ pc = "fetch"
    /\ osm_ways \in OsmFiles
    /\ highways = <<>>
    /\ broken_highways = <<>>
    /\ roads_raw = <<>>
    /\ nodes_raw = <<>>
    /\ traffic_files = <<>>
    /\ count = 0
    /\ inters_done = {}
    /\ idx_inters = <<>>
    /\ inter_calls = <<>>
    /\ hits = <<>>
    /\ hist = [h0 |-> 0, h1 |-> 0, h2 |-> 0, h3 |-> 0, h4 |-> 0]
    /\ new_lines = <<>>
    /\ roadsGDF = <<>>
    /\ nodesGDF = <<>>
    /\ fpath = ""
    /\ network = NaN
    /\ raised = ""

\* ------------------------------------------------- HighwayExtractor.way
\* wkbfab.create_linestring(w): the coordinates of the nodes of w; NaN stands
\* for the exception a node without valid location makes it raise.
create_linestring(w) ==
    IF \E i \in 1..Len(w.nodes) : w.nodes[i].location = NaN THEN NaN
    ELSE Val([i \in 1..Len(w.nodes) |-> w.nodes[i].location[1]])

\* An entry of highways: [w.id, nodes, shp, w.tags['highway']]. The nodes
\* are kept by their refs (the fallback keeps the node objects, and the loop
\* over highways reads their refs).
Highway(id, nodes, shp, highway) ==
    [id |-> id, nodes |-> nodes, shp |-> shp, highway |-> highway]

\* What one call of the handler does: the entries it adds to highways and to
\* broken_highways, and the exception that leaves it ("" when none does).
HandleWay(w) ==
    LET wkb == create_linestring(w)
    IN  IF wkb # NaN
        THEN \* the try block ran to its end
             IF "highway" \in DOMAIN w.tags
             THEN [highways |-> << Highway(w.id,
                                     [i \in 1..Len(w.nodes) |-> w.nodes[i].ref],
                                     wkb[1], w.tags["highway"]) >>,
                   broken   |-> <<>>,
                   raised   |-> ""]
             ELSE [highways |-> <<>>, broken |-> <<>>, raised |-> ""]
        ELSE \* the except block
             LET nodes == SelectSeq(w.nodes, LAMBDA x : x.location # NaN)
             IN  IF Len(nodes) > 1
                 THEN IF "highway" \in DOMAIN w.tags
                      THEN [highways |-> << Highway(w.id,
                                              [i \in 1..Len(nodes) |-> nodes[i].ref],
                                              [i \in 1..Len(nodes) |-> nodes[i].location[1]],
                                              w.tags["highway"]) >>,
                            broken   |-> <<>>,
                            raised   |-> ""]
                      ELSE \* w.tags['highway'] of a way without that tag
                           [highways |-> <<>>, broken |-> <<>>, raised |-> "KeyError"]
                 ELSE [highways |-> <<>>, broken |-> <<w>>, raised |-> ""]

\* The handler, called by apply_file with the next way of the file. An
\* exception that leaves it ends apply_file, and the run with it.
way ==
    /\ pc = "fetch"
    /\ raised = ""
    /\ osm_ways # <<>>
    /\ LET r == HandleWay(Head(osm_ways))
       IN  /\ highways' = highways \o r.highways
           /\ broken_highways' = broken_highways \o r.broken
           /\ raised' = r.raised
    /\ osm_ways' = Tail(osm_ways)
    /\ UNCHANGED <<pc, roads_raw, nodes_raw, traffic_files, roadsGDF, nodesGDF,
                   fpath, network>>
    /\ UNCHANGED loopVars

\* ------------------------------------------------ fetch_roads_w_traffic
\* What one pass of the inner loop adds to all_nodes for vertex n_idx
\* (0-based) of highway x; a missing coordinate raises and ends the pass.
NodesOfStep(x, n_idx) ==
    LET from == x.nodes[n_idx + 1]
        last == (n_idx = Len(x.nodes) - 2)
    IN  IF n_idx + 1 > Len(x.shp) THEN <<>>
        ELSE LET node == [osm_id |-> from, geometry |-> x.shp[n_idx + 1]]
             IN  IF n_idx + 2 > Len(x.shp) THEN <<node>>
                 ELSE IF last THEN <<node, node>>
                 ELSE <<node>>

\* What the same pass adds to all_edges.
EdgesOfStep(x, n_idx) ==
    IF n_idx + 2 > Len(x.shp) THEN <<>>
    ELSE << [stnode     |-> x.nodes[n_idx + 1],
             endnode    |-> x.nodes[n_idx + 2],
             osm_id     |-> x.id,
             infra_type |-> x.highway,
             geometry   |-> <<x.shp[n_idx + 1], x.shp[n_idx + 2]>>] >>

AllNodes(hs) ==
    Flatten([i \in 1..Len(hs) |->
        Flatten([n \in 1..(Len(hs[i].nodes) - 1) |-> NodesOfStep(hs[i], n - 1)])])

AllEdges(hs) ==
    Flatten([i \in 1..Len(hs) |->
        Flatten([n \in 1..(Len(hs[i].nodes) - 1) |-> EdgesOfStep(hs[i], n - 1)])])

\* The rest of fetch_roads_w_traffic, once apply_file has handed every way
\* of the file to the handler; broken_highways is counted, then dropped with
\* the handler.
fetch_roads_w_traffic ==
    /\ pc = "fetch"
    /\ raised = ""
    /\ osm_ways = <<>>
    /\ roads_raw' = AllEdges(highways)
    /\ nodes_raw' = AllNodes(highways)
    /\ broken_highways' = <<>>
    /\ pc' = "raw"
    /\ UNCHANGED <<osm_ways, highways, traffic_files, roadsGDF, nodesGDF>>
    /\ UNCHANGED loopVars
    /\ UNCHANGED readVars

\* ------------------------------------ apply_traffic_speeds_to_roads_raw
\* get_speeds: min, max and mean of the samples of one traffic row; the mean
\* is kept as the fraction <<sum, number of samples>>.
get_speeds(x) ==
    [min_speed  |-> Val(Min(Range(x.samples))),
     max_speed  |-> Val(Max(Range(x.samples))),
     mean_speed |-> Val(<<SumSeq(x.samples), Len(x.samples)>>)]

\* final_df: the rows of all the files, one file after the other.
final_df(files) == Flatten(files)

\* traffic_simplified: FROM_NODE, TO_NODE and the three speeds of each row.
traffic_simplified(files) ==
    LET df == final_df(files)
    IN  [i \in 1..Len(df) |->
            [FROM_NODE |-> df[i].from, TO_NODE |-> df[i].to] @@ get_speeds(df[i])]

\* The rows a left row yields in a left join: one per matching right row, in
\* the right table's order, or one with nulls when nothing matches.
MergeRow(left, right) ==
    LET match == SelectSeq(right,
                    LAMBDA t : t.FROM_NODE = left.stnode /\ t.TO_NODE = left.endnode)
    IN  IF match = <<>>
        THEN << left @@ [FROM_NODE |-> NaN, TO_NODE |-> NaN, min_speed |-> NaN,
                         max_speed |-> NaN, mean_speed |-> NaN] >>
        ELSE [i \in 1..Len(match) |->
                left @@ [FROM_NODE  |-> Val(match[i].FROM_NODE),
                         TO_NODE    |-> Val(match[i].TO_NODE),
                         min_speed  |-> match[i].min_speed,
                         max_speed  |-> match[i].max_speed,
                         mean_speed |-> match[i].mean_speed]]

\* in_df.merge(traffic_simplified, how = "left", ...)
LeftMerge(in_df, right) ==
    Flatten([i \in 1..Len(in_df) |-> MergeRow(in_df[i], right)])

\* The rows the traffic files can hold for the edges at hand: two
\* observations of the first edge, and one of a pair of nodes that is no edge
\* (the first edge reversed).
TrafficRows(roads) ==
    LET f == roads[1]
    IN  << [from |-> f.stnode,  to |-> f.endnode, samples |-> <<30, 50>>],
           [from |-> f.stnode,  to |-> f.endnode, samples |-> <<20, 40>>],
           [from |-> f.endnode, to |-> f.stnode,  samples |-> <<10, 10>>] >>

\* The arguments of one call: any choice of these rows, in one file or with
\* one row per file.
TrafficInputs(roads) ==
    LET all  == TrafficRows(roads)
        rows == {SelectSeq(all, LAMBDA r : r \in S) : S \in (SUBSET Range(all)) \ {{}}}
    IN  {<<r>> : r \in rows} \cup {[i \in 1..Len(r) |-> <<r[i]>>] : r \in rows}

apply_traffic_speeds_to_roads_raw ==
    /\ pc = "raw"
    /\ \E files \in TrafficInputs(roads_raw) :
        /\ traffic_files' = files
        /\ roads_raw' = LeftMerge(roads_raw, traffic_simplified(files))
    /\ pc' = "correct"
    /\ UNCHANGED <<osm_ways, highways, broken_highways, nodes_raw, roadsGDF, nodesGDF>>
    /\ UNCHANGED loopVars
    /\ UNCHANGED readVars

\* ------------------------------- get_all_intersections_and_create_nodes
\* The key of a row: generateRoadsGDF passes unique_id = 'osm_id'.
KeyOf(row) == row.osm_id

\* idx_osm.intersection(line.bounds): the rows whose box meets the line's box.
Candidates(roads, line) ==
    {j \in 1..Len(roads) : BoxesIntersect(Bounds(roads[j].geometry), Bounds(line))}

\* The keys left in the dict of candidates once key1 is popped.
CandidateKeys(roads, cand, key1) == {KeyOf(roads[j]) : j \in cand} \ {key1}

\* dict(zip(keys, geometries)) keeps one geometry per key, the one the R-tree
\* returned last; the order an R-tree returns its entries in is not fixed,
\* so any candidate row of a key can be the one that is kept.
Survivors(roads, cand, keys) ==
    {f \in [keys -> cand] : \A k \in keys : KeyOf(roads[f[k]]) = k}

\* Mutant (C9): the pair is looked up in the order of this visit only.
AlreadyDone_oneOrder(done, key1, key2) == <<key1, key2>> \in done

\* The test that skips a pair already intersected.
AlreadyDone(done, key1, key2) == <<key1, key2>> \in done \/ <<key2, key1>> \in done

\* The points one pair adds to the intersection index.
PointsToInsert(line, line2) ==
    IF Intersects(line, line2)
    THEN IF InterType(line, line2) \in {"Point", "MultiPoint"}
         THEN CommonPoints(line, line2)
         ELSE {}
    ELSE {}

\* A finite set of numbers or of points as a sequence, in increasing order.
RECURSIVE SortedKeys(_)
SortedKeys(S) == IF S = {} THEN <<>> ELSE <<Min(S)>> \o SortedKeys(S \ {Min(S)})

PointLess(p, q) == p[1] < q[1] \/ (p[1] = q[1] /\ p[2] < q[2])

RECURSIVE SortedPoints(_)
SortedPoints(S) ==
    IF S = {} THEN <<>>
    ELSE LET m == CHOOSE p \in S : \A q \in S \ {p} : PointLess(p, q)
         IN  <<m>> \o SortedPoints(S \ {m})

\* idx_inters.intersection(line.bounds, objects = True): the recorded points
\* inside the line's box.
Hits(idx, line) ==
    SelectSeq(idx, LAMBDA p : BoxesIntersect(PointBounds(p), Bounds(line)))

\* The hit counters after a row with n hits.
CountHits(h, n) ==
    CASE n = 0 -> [h EXCEPT !.h0 = @ + 1]
      [] n = 1 -> [h EXCEPT !.h1 = @ + 1]
      [] n = 2 -> [h EXCEPT !.h2 = @ + 1]
      [] n = 3 -> [h EXCEPT !.h3 = @ + 1]
      [] OTHER -> [h EXCEPT !.h4 = @ + 1]

\* new_node_id when piece number i (1-based, not the last) is reached.
RECURSIVE NewNodeId(_, _, _)
NewNodeId(stnode, endnode, i) ==
    IF i = 1 THEN FirstNewNodeId(stnode, endnode)
    ELSE NextNewNodeId(NewNodeId(stnode, endnode, i - 1))

\* Mutant (C7): only the piece that starts at the row's stnode keeps the speeds.
EdgeDict_speedsOnFirst(row, st, en, geom) ==
    [stnode     |-> st,
     endnode    |-> en,
     osm_id     |-> row.osm_id,
     infra_type |-> row.infra_type,
     geometry   |-> geom,
     min_speed  |-> IF st = row.stnode THEN row.min_speed ELSE NaN,
     max_speed  |-> IF st = row.stnode THEN row.max_speed ELSE NaN,
     mean_speed |-> IF st = row.stnode THEN row.mean_speed ELSE NaN]

\* The dict appended to new_lines for one piece.
EdgeDict(row, st, en, geom) ==
    [stnode     |-> st,
     endnode    |-> en,
     osm_id     |-> KeyOf(row),
     infra_type |-> row.infra_type,
     geometry   |-> geom,
     min_speed  |-> row.min_speed,
     max_speed  |-> row.max_speed,
     mean_speed |-> row.mean_speed]

\* The edges emitted for a row whose split gave the pieces out.
PieceEdges(row, out) ==
    LET n == Len(out)
        startOf(i) == IF i = 1 THEN row.stnode
                      ELSE NewNodeId(row.stnode, row.endnode, i - 1)
        endOf(i)   == IF i = n THEN row.endnode
                      ELSE NewNodeId(row.stnode, row.endnode, i)
    IN  [i \in 1..n |-> EdgeDict(row, startOf(i), endOf(i), out[i])]

\* The node records appended for that row: one at the end of every piece but
\* the last.
PieceNodes(row, out) ==
    [i \in 1..(Len(out) - 1) |->
        [osm_id   |-> NewNodeId(row.stnode, row.endnode, i),
         geometry |-> out[i][Len(out[i])]]]

\* The variables of the loop, as one record: the state of a pass.
LoopStart(nodes) ==
    [count       |-> 0,
     inters_done |-> {},
     idx_inters  |-> <<>>,
     inter_calls |-> <<>>,
     hits        |-> <<>>,
     hist        |-> [h0 |-> 0, h1 |-> 0, h2 |-> 0, h3 |-> 0, h4 |-> 0],
     new_lines   |-> <<>>,
     nodes       |-> nodes]

\* The candidate rows one iteration can be left with: one row per key.
RowSurvivors(roads, n) ==
    LET cand == Candidates(roads, roads[n].geometry)
    IN  Survivors(roads, cand, CandidateKeys(roads, cand, KeyOf(roads[n])))

\* One iteration of the loop over in_df_roads_raw: the state of the pass
\* after row number L.count + 1, line2 being the candidate kept for each key.
StepRow(roads, L, line2) ==
    LET row    == roads[L.count + 1]
        key1   == KeyOf(row)
        line   == row.geometry
        keys   == DOMAIN line2
        fresh  == SortedKeys({k \in keys : ~AlreadyDone(L.inters_done, key1, k)})
        found  == Flatten([i \in 1..Len(fresh) |->
                    SortedPoints(PointsToInsert(line, roads[line2[fresh[i]]].geometry))])
        idx    == L.idx_inters \o found
        h      == Hits(idx, line)
        out    == Split(line, h)
    IN  [count       |-> L.count + 1,
         inters_done |-> L.inters_done \cup {<<key1, fresh[i]>> : i \in 1..Len(fresh)},
         idx_inters  |-> idx,
         inter_calls |-> L.inter_calls \o
                            [i \in 1..Len(fresh) |-> <<L.count + 1, line2[fresh[i]]>>],
         hits        |-> h,
         hist        |-> CountHits(L.hist, Len(h)),
         new_lines   |-> IF Len(h) # 0
                         THEN Append(L.new_lines, PieceEdges(row, out))
                         ELSE Append(L.new_lines,
                                     <<EdgeDict(row, row.stnode, row.endnode, line)>>),
         nodes       |-> IF Len(h) # 0 THEN L.nodes \o PieceNodes(row, out) ELSE L.nodes]

\* The pass as the object's variables hold it.
LoopState ==
    [count       |-> count,
     inters_done |-> inters_done,
     idx_inters  |-> idx_inters,
     inter_calls |-> inter_calls,
     hits        |-> hits,
     hist        |-> hist,
     new_lines   |-> new_lines,
     nodes       |-> nodes_raw]

ProcessRow ==
    /\ pc = "correct"
    /\ raised = ""
    /\ count < Len(roads_raw)
    /\ \E line2 \in RowSurvivors(roads_raw, count + 1) :
        LET L == StepRow(roads_raw, LoopState, line2)
        IN  /\ count' = L.count
            /\ inters_done' = L.inters_done
            /\ idx_inters' = L.idx_inters
            /\ inter_calls' = L.inter_calls
            /\ hits' = L.hits
            /\ hist' = L.hist
            /\ new_lines' = L.new_lines
            /\ nodes_raw' = L.nodes
    /\ UNCHANGED <<pc, osm_ways, highways, broken_highways, roads_raw, traffic_files,
                   roadsGDF, nodesGDF>>
    /\ UNCHANGED readVars

\* The whole loop from the state L on: every state it can end in.
RECURSIVE RunLoop(_, _)
RunLoop(roads, L) ==
    IF L.count = Len(roads) THEN {L}
    ELSE UNION {RunLoop(roads, StepRow(roads, L, line2)) :
                    line2 \in RowSurvivors(roads, L.count + 1)}

\* Mutant (C8): the numbering starts again at 1 for every row.
FlatList_restart(lines) ==
    Flatten([r \in 1..Len(lines) |->
        [j \in 1..Len(lines[r]) |-> lines[r][j] @@ [id |-> j]]])

\* The flattening that numbers the edges, then the end of generateRoadsGDF.
\* (The length column, a geodesic length computed by geopy, is left out.)
FlatList(lines) ==
    LET flat == Flatten(lines)
    IN  [i \in 1..Len(flat) |-> flat[i] @@ [id |-> i]]

generateRoadsGDF ==
    /\ pc = "correct"
    /\ raised = ""
    /\ count = Len(roads_raw)
    /\ roadsGDF' = FlatList(new_lines)
    /\ nodesGDF' = nodes_raw
    /\ pc' = "done"
    /\ UNCHANGED <<osm_ways, highways, broken_highways, roads_raw, nodes_raw,
                   traffic_files>>
    /\ UNCHANGED loopVars
    /\ UNCHANGED readVars

\* -------------------------------------------------------- initialReadIn
\* The labels of the graph's nodes are numbers (node ids) and strings.
IntNode(n) == <<"int", n>>
StrNode(s) == <<"str", s>>

\* The columns of the node table, as fetch_roads_w_traffic names them.
NodeColumns == <<"osm_id", "geometry">>

\* iter(DataFrame): what a loop over a table yields is its column labels,
\* whatever rows it has.
IterDataFrame(df, columns) == columns

\* convert(x): the (u, v, data) of one row of the edge table.
convert(x) ==
    [u    |-> x.stnode,
     v    |-> x.endnode,
     data |-> [Wkt        |-> x.geometry,
               id         |-> x.id,
               osm_id     |-> x.osm_id,
               infra_type |-> x.infra_type,
               min_speed  |-> x.min_speed,
               max_speed  |-> x.max_speed,
               mean_speed |-> x.mean_speed]]

\* nx.MultiDiGraph()
EmptyGraph == [nodes |-> {}, edges |-> <<>>]

\* G.add_nodes_from(it): every item the iteration yields becomes a node.
add_nodes_from(G, labels) ==
    [G EXCEPT !.nodes = @ \cup {StrNode(labels[i]) : i \in 1..Len(labels)}]

\* G.add_edges_from(bunch): each (u, v, data) becomes an edge, its key the
\* number of edges from u to v already there; u and v become nodes.
RECURSIVE add_edges_from(_, _)
add_edges_from(G, bunch) ==
    IF bunch = <<>> THEN G
    ELSE LET e   == Head(bunch)
             key == Len(SelectSeq(G.edges, LAMBDA d : d.u = e.u /\ d.v = e.v))
         IN  add_edges_from(
                [nodes |-> G.nodes \cup {IntNode(e.u), IntNode(e.v)},
                 edges |-> Append(G.edges, e @@ [key |-> key])],
                Tail(bunch))

\* The graph initialReadIn builds from an edge table and a node table.
BuildGraph(edges, nodes) ==
    LET edge_bunch == [i \in 1..Len(edges) |-> convert(edges[i])]
    IN  add_edges_from(add_nodes_from(EmptyGraph, IterDataFrame(nodes, NodeColumns)),
                       edge_bunch)

\* The forms of the fpath argument.
FpathForms == {"None", "str", "GeoDataFrame"}

\* The forms of fpath a call can have in the state at hand: the csv of
\* processed roads and the GeoDataFrame of edges are there once
\* generateRoadsGDF has produced them.
FpathInputs == IF pc = "done" THEN FpathForms ELSE {"None"}

\* A local variable no statement has assigned yet.
Unbound == NaN

\* The Wkt column of the csv, each cell parsed by loads.
WktColumn(df) == [i \in 1..Len(df) |-> df[i].geometry]

\* The locals edges_1 and nodes_1 after the branch on the type of fpath: the
\* branches for a string and for a GeoDataFrame assign edges_1 only.
ReadInLocals(f, edges, nodes) ==
    CASE f = "str"          -> [edges_1 |-> Val(WktColumn(edges)), nodes_1 |-> Unbound]
      [] f = "GeoDataFrame" -> [edges_1 |-> Val(edges),            nodes_1 |-> Unbound]
      [] OTHER              -> [edges_1 |-> Val(edges),            nodes_1 |-> Val(nodes)]

\* The rest of initialReadIn, from edges_1.copy() on: reading a local that is
\* not bound raises, otherwise the graph is built and kept.
ReadInResult(loc) ==
    IF loc.edges_1 = Unbound \/ loc.nodes_1 = Unbound
    THEN [raised |-> "UnboundLocalError", network |-> NaN]
    ELSE [raised |-> "", network |-> Val(BuildGraph(loc.edges_1[1], loc.nodes_1[1]))]

\* initialReadIn(fpath). With None the tables of the object are used; when
\* generateRoadsGDF has not run yet, self.roadsGDF does not exist and the
\* except branch runs it first, the whole pass and the flattening.
initialReadIn ==
    /\ \/ pc = "correct" /\ count = 0
       \/ pc = "done"
    /\ fpath = ""
    /\ \E f \in FpathInputs :
        /\ fpath' = f
        /\ IF f = "None" /\ pc # "done"
           THEN \E L \in RunLoop(roads_raw, LoopStart(nodes_raw)) :
                LET res == ReadInResult(ReadInLocals(f, FlatList(L.new_lines), L.nodes))
                IN  /\ count' = L.count
                    /\ inters_done' = L.inters_done
                    /\ idx_inters' = L.idx_inters
                    /\ inter_calls' = L.inter_calls
                    /\ hits' = L.hits
                    /\ hist' = L.hist
                    /\ new_lines' = L.new_lines
                    /\ nodes_raw' = L.nodes
                    /\ roadsGDF' = FlatList(L.new_lines)
                    /\ nodesGDF' = L.nodes
                    /\ network' = res.network
                    /\ raised' = res.raised
                    /\ pc' = "done"
           ELSE LET res == ReadInResult(ReadInLocals(f, roadsGDF, nodesGDF))
                IN  /\ network' = res.network
                    /\ raised' = res.raised
                    /\ UNCHANGED <<pc, nodes_raw, roadsGDF, nodesGDF>>
                    /\ UNCHANGED loopVars
    /\ UNCHANGED <<osm_ways, highways, broken_highways, roads_raw, traffic_files>>

\* ----------------------------------------------------- the specification
Next ==
    \/ way
    \/ fetch_roads_w_traffic
    \/ apply_traffic_speeds_to_roads_raw
    \/ ProcessRow
    \/ generateRoadsGDF
    \/ initialReadIn

Spec == Init /\ [][Next]_vars

\* ============================================================ properties
\* Helpers of the properties below.
RawNodeCount == Len(AllNodes(highways))
RawEdgeCount == Len(AllEdges(highways))
FirstCoord(g) == g[1]
LastCoord(g) == g[Len(g)]
Geoms(sub) == [j \in 1..Len(sub) |-> sub[j].geometry]
NodeIds(tab) == {tab[i].osm_id : i \in 1..Len(tab)}

\* The traffic merge kept one row per RawEdge.
NoRowDuplicated == Len(roads_raw) = RawEdgeCount

\* a and b are edges of different ways, share no end node, and meet in
\* exactly one point, which is interior to both.
CrossOnce(a, b) ==
    /\ a.osm_id # b.osm_id
    /\ {a.stnode, a.endnode} \cap {b.stnode, b.endnode} = {}
    /\ InterType(a.geometry, b.geometry) = "Point"
    /\ \A p \in CommonPoints(a.geometry, b.geometry) :
          InInterior(p, a.geometry) /\ InInterior(p, b.geometry)

\* C1 (as claimed): when the pass has run over two RawEdges A and B of
\* different ways that cross once, in the interior of both, and share no end
\* node, it has emitted four CorrectedEdges, two for A and two for B, and the
\* node at the crossing has one id in all four: endnode of A's first piece =
\* stnode of A's second = endnode of B's first = stnode of B's second.
C1_CrossingSharesOneNodeId ==
    (pc = "done" /\ Len(roads_raw) = 2 /\ CrossOnce(roads_raw[1], roads_raw[2])) =>
        /\ Len(roadsGDF) = 4
        /\ Len(new_lines[1]) = 2
        /\ Len(new_lines[2]) = 2
        /\ new_lines[1][1].endnode = new_lines[1][2].stnode
        /\ new_lines[1][2].stnode = new_lines[2][1].endnode
        /\ new_lines[2][1].endnode = new_lines[2][2].stnode

\* p is an end of one of the pieces emitted for row i.
IsSplitPointOf(p, i) ==
    \E j \in 1..Len(new_lines[i]) :
        p \in {FirstCoord(new_lines[i][j].geometry), LastCoord(new_lines[i][j].geometry)}

\* C2 (as claimed): after the pass every point at which two distinct RawEdges
\* cross in the interior of both is an end of a piece of each of them, so no
\* two emitted edges cross at a point interior to one of them. (Stated for
\* the runs in which the traffic merge duplicated no row.)
C2_NoFloatingCrossing ==
    (pc = "done" /\ NoRowDuplicated) =>
        \A i, j \in 1..Len(roads_raw) : \A p \in Grid :
            ( /\ i # j
              /\ InterType(roads_raw[i].geometry, roads_raw[j].geometry) = "Point"
              /\ InInterior(p, roads_raw[i].geometry)
              /\ InInterior(p, roads_raw[j].geometry) )
            => (IsSplitPointOf(p, i) /\ IsSplitPointOf(p, j))

\* C3 (as claimed): in every state of a pass, each node id a split has
\* appended to the node table differs from every id appended before it, the
\* ids of the raw node table included. (Stated for the runs in which the
\* traffic merge duplicated no row.)
C3_SyntheticIdsAreFresh ==
    NoRowDuplicated =>
        \A i \in (RawNodeCount + 1)..Len(nodes_raw) : \A j \in 1..(i - 1) :
            nodes_raw[j].osm_id # nodes_raw[i].osm_id

\* The ids of the nodes a split put between the pieces of sub.
ChainIds(sub) == [j \in 1..(Len(sub) - 1) |-> sub[j].endnode]

\* The edges sub are a chain from st to en; each inner node is the end of one
\* edge, the start of the next and of no other edge of the chain.
IsChain(sub, st, en) ==
    /\ sub[1].stnode = st
    /\ sub[Len(sub)].endnode = en
    /\ \A j \in 1..(Len(sub) - 1) :
        /\ sub[j + 1].stnode = sub[j].endnode
        /\ \A m \in 1..Len(sub) :
            /\ sub[m].endnode = sub[j].endnode => m = j
            /\ sub[m].stnode = sub[j].endnode => m = j + 1

\* The number of node records the rows finished so far have appended.
RECURSIVE AppendedBy(_, _)
AppendedBy(lines, n) ==
    IF n = 0 THEN 0 ELSE AppendedBy(lines, n - 1) + (Len(lines[n]) - 1)

\* C4 (as claimed): a row whose split yields k+1 pieces, k >= 1, gets k+1
\* edges and k new node records with k different ids, and its edges are a
\* chain from its stnode to its endnode through these ids, each id being the
\* end of one edge, the start of the next and of no other edge of the chain.
\* Stated of the row finished last, in every state of the loop.
C4_SplitChain ==
    (count >= 1 /\ Len(Split(roads_raw[count].geometry, hits)) >= 2) =>
        LET row == roads_raw[count]
            sub == new_lines[count]
            k   == Len(Split(row.geometry, hits)) - 1
            n   == Len(nodes_raw)
        IN  /\ Len(sub) = k + 1
            /\ n = RawNodeCount + AppendedBy(new_lines, count)
            /\ \A j \in 1..k : nodes_raw[n - k + j].osm_id = ChainIds(sub)[j]
            /\ Cardinality(Range(ChainIds(sub))) = k
            /\ IsChain(sub, row.stnode, row.endnode)

\* C5 (as claimed): the coordinate sequences of the pieces of a split row, one
\* after the other in emission order, are the row's geometry, coordinate for
\* coordinate.
C5_ConcatenationIsOriginal ==
    \A i \in 1..count :
        Len(new_lines[i]) >= 2 =>
            Flatten(Geoms(new_lines[i])) = roads_raw[i].geometry

\* C5 (amended): the pieces of a split row follow one another along the row's
\* line: each piece ends at the coordinate the next one starts at, a point of
\* the interior of the row's line, and their coordinate sequences one after
\* the other in emission order, with these split points taken out, are the
\* row's geometry, coordinate for coordinate.
C5_ConcatenationWithoutSplitPoints ==
    \A i \in 1..count :
        Len(new_lines[i]) >= 2 =>
            LET g   == Geoms(new_lines[i])
                cut == {LastCoord(g[j]) : j \in 1..(Len(g) - 1)}
            IN  /\ \A j \in 1..(Len(g) - 1) : LastCoord(g[j]) = FirstCoord(g[j + 1])
                /\ \A p \in cut : InInterior(p, roads_raw[i].geometry)
                /\ Cardinality(cut) = Len(g) - 1
                /\ SelectSeq(Flatten(g), LAMBDA c : c \notin cut) = roads_raw[i].geometry

\* A row has been split in three or more pieces.
C5_Witness ==
    \E i \in 1..count : Len(new_lines[i]) >= 3

\* No other row's line passes through a point of the interior of row i's line.
Untouched(i) ==
    \A j \in (1..Len(roads_raw)) \ {i} : \A p \in Grid :
        InInterior(p, roads_raw[i].geometry) => ~OnLine(p, roads_raw[j].geometry)

\* C6: a row whose line no other row's line meets outside its two ends is
\* emitted as one edge with the row's geometry, stnode and endnode, and the
\* step that processes it appends no node record, whether the row had no hit
\* or had hits (at its ends, or in its box but off its line).
C6_UntouchedRowPassesThrough ==
    [][ (pc = "correct" /\ count' = count + 1 /\ Untouched(count + 1)) =>
            /\ Len(new_lines'[count + 1]) = 1
            /\ new_lines'[count + 1][1].geometry = roads_raw[count + 1].geometry
            /\ new_lines'[count + 1][1].stnode = roads_raw[count + 1].stnode
            /\ new_lines'[count + 1][1].endnode = roads_raw[count + 1].endnode
            /\ nodes_raw' = nodes_raw ]_vars

\* The row finished last is untouched, had a hit that is not on its line, and
\* came out as one edge.
C6_Witness ==
    /\ count >= 1
    /\ Untouched(count)
    /\ \E n \in 1..Len(hits) : ~OnLine(hits[n], roads_raw[count].geometry)
    /\ Len(new_lines[count]) = 1

\* e carries the way id, road class and speeds of the row r.
SameAttributes(e, r) ==
    /\ e.osm_id = r.osm_id
    /\ e.infra_type = r.infra_type
    /\ e.min_speed = r.min_speed
    /\ e.max_speed = r.max_speed
    /\ e.mean_speed = r.mean_speed

\* The number of edges emitted for the rows before row i.
RECURSIVE Offset(_, _)
Offset(lines, i) == IF i = 1 THEN 0 ELSE Offset(lines, i - 1) + Len(lines[i - 1])

\* C7: every edge emitted for a row, whichever way it was emitted, carries
\* the row's osm_id, infra_type, min_speed, max_speed and mean_speed, in
\* new_lines and, once the pass has ended, in roadsGDF.
C7_AttributesPropagate ==
    \A i \in 1..count : \A j \in 1..Len(new_lines[i]) :
        /\ SameAttributes(new_lines[i][j], roads_raw[i])
        /\ pc = "done" => SameAttributes(roadsGDF[Offset(new_lines, i) + j], roads_raw[i])

\* The pass has ended; a row with speeds was cut in three or more pieces, a
\* row came out whole with hits and a row came out whole without a hit.
C7_Witness ==
    /\ pc = "done"
    /\ \E i \in 1..count : Len(new_lines[i]) >= 3 /\ roads_raw[i].min_speed # NaN
    /\ hist.h0 >= 1
    /\ \E i \in 1..count : Len(new_lines[i]) = 1 /\ i = count /\ hits # <<>>

\* C8: the ids of the emitted edges are given only once every row has been
\* processed, and are then 1..N in the order of production: rows in row
\* order, the pieces of a row from its stnode to its endnode.
C8_IdsContiguousInOrder ==
    /\ pc # "done" =>
        /\ roadsGDF = <<>>
        /\ \A i \in 1..count : \A j \in 1..Len(new_lines[i]) :
              "id" \notin DOMAIN new_lines[i][j]
    /\ pc = "done" =>
        /\ count = Len(roads_raw)
        /\ Len(roadsGDF) = Offset(new_lines, count + 1)
        /\ \A n \in 1..Len(roadsGDF) : roadsGDF[n].id = n
        /\ \A i \in 1..count : \A j \in 1..Len(new_lines[i]) :
              LET e == roadsGDF[Offset(new_lines, i) + j]
              IN  /\ e.stnode = new_lines[i][j].stnode
                  /\ e.endnode = new_lines[i][j].endnode
                  /\ e.geometry = new_lines[i][j].geometry
                  /\ e.osm_id = new_lines[i][j].osm_id

\* The pass has ended over three rows or more, one of them split.
C8_Witness ==
    /\ pc = "done"
    /\ Len(roads_raw) >= 3
    /\ \E i \in 1..count : Len(new_lines[i]) >= 2
    /\ Len(new_lines[count]) = 1

\* The number of points the computed pairs put into the index.
RECURSIVE InsertedBy(_, _)
InsertedBy(calls, n) ==
    IF n = 0 THEN 0
    ELSE InsertedBy(calls, n - 1)
         + Cardinality(PointsToInsert(roads_raw[calls[n][1]].geometry,
                                      roads_raw[calls[n][2]].geometry))

\* C9: in every state of a pass, no two rows have had their intersection
\* computed twice, in either order of visit, and the intersection index
\* holds the points of each computed pair once.
C9_PairComputedOnce ==
    /\ \A m, n \in 1..Len(inter_calls) :
          m # n => {inter_calls[m][1], inter_calls[m][2]}
                   # {inter_calls[n][1], inter_calls[n][2]}
    /\ Len(idx_inters) = InsertedBy(inter_calls, Len(inter_calls))

\* A pair that put a point into the index was computed when its first row
\* was visited, and its second row has been visited since.
C9_Witness ==
    \E m \in 1..Len(inter_calls) :
        /\ inter_calls[m][1] < inter_calls[m][2]
        /\ inter_calls[m][2] <= count
        /\ PointsToInsert(roads_raw[inter_calls[m][1]].geometry,
                          roads_raw[inter_calls[m][2]].geometry) # {}

\* C10 (as claimed): after the traffic merge roads_raw has one row per
\* original RawEdge, with its stnode, endnode, osm_id, infra_type and
\* geometry; a row has speeds only if a traffic row has its (from, to) key,
\* and a row without such a traffic row has null speeds.
C10_MergeKeepsEdgeSet ==
    pc \in {"correct", "done"} =>
        LET orig == AllEdges(highways)
            df   == final_df(traffic_files)
            keyed(r) == \E n \in 1..Len(df) : df[n].from = r.stnode /\ df[n].to = r.endnode
        IN  /\ Len(roads_raw) = Len(orig)
            /\ \A i \in 1..Len(orig) :
                /\ roads_raw[i].stnode = orig[i].stnode
                /\ roads_raw[i].endnode = orig[i].endnode
                /\ roads_raw[i].osm_id = orig[i].osm_id
                /\ roads_raw[i].infra_type = orig[i].infra_type
                /\ roads_raw[i].geometry = orig[i].geometry
                /\ keyed(orig[i]) <=> roads_raw[i].mean_speed # NaN
                /\ keyed(orig[i]) <=> roads_raw[i].min_speed # NaN
                /\ keyed(orig[i]) <=> roads_raw[i].max_speed # NaN

\* The node labels of the graph that are node ids of the table tab.
TableNodes(tab) == {IntNode(n) : n \in NodeIds(tab)}

\* The node labels of the graph that are ends of the edges of the table tab.
EdgeEndNodes(tab) ==
    {IntNode(tab[i].stnode) : i \in 1..Len(tab)}
        \cup {IntNode(tab[i].endnode) : i \in 1..Len(tab)}

\* C11 (as claimed): the graph initialReadIn returns on its default path has
\* as nodes the node ids of the corrected node table and the stnode and
\* endnode of the corrected edges, and nothing else; every node id of the
\* corrected node table, the synthetic ones included, is a node of the graph.
C11_GraphNodesAreTableAndEdgeEnds ==
    (fpath = "None" /\ network # NaN) =>
        /\ network[1].nodes = TableNodes(nodesGDF) \cup EdgeEndNodes(roadsGDF)
        /\ TableNodes(nodesGDF) \subseteq network[1].nodes

\* The raw node table: the records fetch_roads_w_traffic made.
RawNodes == SubSeq(nodes_raw, 1, RawNodeCount)

\* C12 (as claimed): once fetch_roads_w_traffic has run, every vertex of
\* every accepted way has a record in the raw node table with the vertex's
\* node id and coordinate; so has the last vertex of each way, and with it
\* the endnode of every RawEdge.
C12_EveryVertexHasNodeRecord ==
    pc # "fetch" =>
        /\ \A w \in 1..Len(highways) : \A i \in 1..Len(highways[w].nodes) :
              \E n \in 1..Len(RawNodes) :
                  /\ RawNodes[n].osm_id = highways[w].nodes[i]
                  /\ RawNodes[n].geometry = highways[w].shp[i]
        /\ \A e \in 1..RawEdgeCount :
              AllEdges(highways)[e].endnode \in NodeIds(RawNodes)

\* C13 (as claimed): whatever documented form its fpath argument has (a
\* string path, a GeoDataFrame of edges, None), a call of initialReadIn
\* raises nothing and returns a graph.
C13_ReadInReturnsGraph ==
    fpath \in FpathForms => (raised = "" /\ network # NaN)

\* The intersection of the rows i and j has been computed, at the visit of
\* either.
Considered(i, j) ==
    \E m \in 1..Len(inter_calls) : {inter_calls[m][1], inter_calls[m][2]} = {i, j}

\* C14 (as claimed): once a row has been processed, every other row whose
\* bounding box meets its box has had its intersection with it computed, at
\* this visit or at an earlier one of the other row: nothing but the row
\* itself was taken out of its candidates, neither another segment of its
\* own way nor one of several segments of another way. (Stated for the runs
\* in which the traffic merge duplicated no row.)
C14_OnlySelfExcluded ==
    NoRowDuplicated =>
        \A i \in 1..count : \A j \in (1..Len(roads_raw)) \ {i} :
            BoxesIntersect(Bounds(roads_raw[i].geometry), Bounds(roads_raw[j].geometry))
                => Considered(i, j)

\* A way is malformed: a node of it has no valid location, and the
\* construction of its linestring fails.
Malformed(w) == \E i \in 1..Len(w.nodes) : w.nodes[i].location = NaN

\* The nodes of w that have a valid location.
ValidNodes(w) == SelectSeq(w.nodes, LAMBDA x : x.location # NaN)

\* C15 (as claimed): the handler, given a malformed way, lets no exception
\* out and ends in one of three outcomes, after which the next way is
\* handled: the way is appended to highways with the geometry of its
\* valid-location nodes (two or more of them), or it is appended to
\* broken_highways (fewer than two of them), or it has no highway tag and is
\* dropped.
C15_MalformedWayIsRecovered ==
    [][ (pc = "fetch" /\ osm_ways # <<>> /\ osm_ways' = Tail(osm_ways)
                     /\ Malformed(Head(osm_ways))) =>
            LET w     == Head(osm_ways)
                valid == ValidNodes(w)
            IN  /\ raised' = ""
                /\ \/ /\ Len(valid) >= 2
                      /\ Len(highways') = Len(highways) + 1
                      /\ highways'[Len(highways')].id = w.id
                      /\ highways'[Len(highways')].shp =
                            [i \in 1..Len(valid) |-> valid[i].location[1]]
                      /\ broken_highways' = broken_highways
                   \/ /\ Len(valid) < 2
                      /\ broken_highways' = Append(broken_highways, w)
                      /\ highways' = highways
                   \/ /\ "highway" \notin DOMAIN w.tags
                      /\ highways' = highways
                      /\ broken_highways' = broken_highways ]_vars

\* Every row has a key of its own.
DistinctKeys ==
    \A i, j \in 1..Len(roads_raw) : i # j => KeyOf(roads_raw[i]) # KeyOf(roads_raw[j])

\* The orders a table of n rows can be put in, and the table in such an order.
RowOrders(n) == {p \in [1..n -> 1..n] : Injective(p)}
Permute(rows, p) == [i \in 1..Len(rows) |-> rows[p[i]]]

\* The emitted edges, as the set of their (stnode, endnode, osm_id, geometry).
EdgeSet(lines) ==
    LET flat == Flatten(lines)
    IN  {<<flat[i].stnode, flat[i].endnode, flat[i].osm_id, flat[i].geometry>> :
            i \in 1..Len(flat)}

\* The node records a pass appended to the raw node table, as a set.
SyntheticNodeSet(nodes) == {nodes[i] : i \in (RawNodeCount + 1)..Len(nodes)}

\* C16 (as claimed): when every RawEdge has a key of its own, the result of
\* the pass does not depend on the order of the rows: a pass over the same
\* rows in any other order emits the same set of edges, compared on stnode,
\* endnode, osm_id and geometry, and appends the same set of node records.
\* Stated of the pass that has just ended, against the pass over each
\* permutation of its rows.
C16_OrderIndependent ==
    (pc = "done" /\ fpath = "" /\ DistinctKeys) =>
        \A p \in RowOrders(Len(roads_raw)) :
            \A L \in RunLoop(Permute(roads_raw, p), LoopStart(RawNodes)) :
                /\ EdgeSet(L.new_lines) = EdgeSet(new_lines)
                /\ SyntheticNodeSet(L.nodes) = SyntheticNodeSet(nodes_raw)

====
